---------------------------- MODULE Spec2Model ----------------------------
(***************************************************************************)
(* Model of src/main.py: the Streamlit chat assistant of AITOPIA Shopping  *)
(* Mart.  One script run (run_streamlit) handles one chat message against  *)
(* st.session_state; the fuzzy category matcher (smart_match_category) is  *)
(* a pure function that is also exercised on its own under MatchSpec.      *)
(*                                                                         *)
(* A Python str is a sequence of one-character strings.                    *)
(***************************************************************************)
EXTENDS Integers, Sequences, FiniteSets, TLC

VARIABLES
    session_state,      \* st.session_state: user_info, selected_cat, items, cart, login_step
    selected_category,  \* smart_match_category(...) of the current run (main.py:250)
    out,                \* what the current run rendered after the chat input
    match_input,        \* smart_match_category on its own: its first argument,
    categories,         \*   its second argument,
    matched             \*   and <<what it returned>>, <<>> before the call

vars == <<session_state, selected_category, out, match_input, categories, matched>>

(***************************************************************************)
(* Bounds of the model.                                                    *)
(***************************************************************************)
\* longest user input the matcher is exercised on under MatchSpec
MaxLen == 3
\* longest raw category feed the matcher is exercised on under MatchSpec
MaxCats == 2
\* largest quantity a cart line may reach (caps the unbounded counter)
MaxQty == 4

(***************************************************************************)
(* Python str operations.                                                  *)
(***************************************************************************)
UpperCase == <<"A","B","C","D","E","F","G","H","I","J","K","L","M",
               "N","O","P","Q","R","S","T","U","V","W","X","Y","Z">>

LowerCase == <<"a","b","c","d","e","f","g","h","i","j","k","l","m",
               "n","o","p","q","r","s","t","u","v","w","x","y","z">>

Digits == <<"0","1","2","3","4","5","6","7","8","9">>

\* the characters of the model in code-point order (str comparison)
CodePoints == <<" ", "-">> \o Digits \o UpperCase \o LowerCase

Range(s) == {s[i] : i \in DOMAIN s}

\* the element of a one-element set.  The({ f(x) : x \in {e} }) is f(e) with
\* e evaluated once: a local variable of the code
The(S) == CHOOSE x \in S : TRUE

UpperSet == Range(UpperCase)

LetterSet == Range(UpperCase) \cup Range(LowerCase)

DigitSet == Range(Digits)

\* ord(c), up to the order
OrdTable == [c \in Range(CodePoints) |-> CHOOSE i \in DOMAIN CodePoints : CodePoints[i] = c]

Ord(c) == OrdTable[c]

\* c.lower() of the upper-case letters
LowerTable == [c \in UpperSet |-> LowerCase[CHOOSE i \in DOMAIN UpperCase : UpperCase[i] = c]]

IsSpace(c) == c = " "

IsDigitChar(c) == c \in DigitSet

IsAlphaChar(c) == c \in LetterSet

LowerChar(c) == IF c \in UpperSet THEN LowerTable[c] ELSE c

\* str.lower()
Lower(s) == [i \in DOMAIN s |-> LowerChar(s[i])]

\* str.strip()
Strip(s) ==
    LET keep == {i \in DOMAIN s : ~IsSpace(s[i])}
    IN  IF keep = {} THEN <<>>
        ELSE LET lo == CHOOSE i \in keep : \A j \in keep : i <= j
                 hi == CHOOSE i \in keep : \A j \in keep : j <= i
             IN  SubSeq(s, lo, hi)

\* str.isalpha(): non-empty and every character a letter
IsAlpha(s) == s # <<>> /\ \A i \in DOMAIN s : IsAlphaChar(s[i])

\* str.isdigit(): non-empty and every character a digit
IsDigit(s) == s # <<>> /\ \A i \in DOMAIN s : IsDigitChar(s[i])

\* str.replace(" ", "")
RemoveSpaces(s) == SelectSeq(s, LAMBDA c : c # " ")

\* ''.join(filter(str.isdigit, s))
FilterDigits(s) == SelectSeq(s, IsDigitChar)

\* str.startswith(p)
StartsWith(s, p) == Len(s) >= Len(p) /\ SubSeq(s, 1, Len(p)) = p

\* p in s (substring test)
Contains(s, p) ==
    \E i \in 1..(Len(s) + 1) : i + Len(p) - 1 <= Len(s) /\ SubSeq(s, i, i + Len(p) - 1) = p

\* str.split(): the maximal runs of non-whitespace characters
RECURSIVE Split(_)
Split(s) ==
    The({ IF t = <<>> THEN <<>>
          ELSE The({ <<SubSeq(t, 1, cut - 1)>> \o Split(SubSeq(t, cut, Len(t))) :
                     cut \in {IF \A i \in DOMAIN t : ~IsSpace(t[i]) THEN Len(t) + 1
                              ELSE CHOOSE i \in DOMAIN t :
                                       /\ IsSpace(t[i])
                                       /\ \A j \in 1..(i - 1) : ~IsSpace(t[j])} }) :
          t \in {Strip(s)} })

\* " ".join(parts)
RECURSIVE Join(_)
Join(parts) ==
    IF parts = <<>> THEN <<>>
    ELSE IF Len(parts) = 1 THEN parts[1]
    ELSE parts[1] \o <<" ">> \o Join(Tail(parts))

\* int(s) of a digit string
RECURSIVE ParseInt(_)
ParseInt(s) ==
    IF s = <<>> THEN 0
    ELSE 10 * ParseInt(SubSeq(s, 1, Len(s) - 1)) + (Ord(s[Len(s)]) - Ord("0"))

\* x < y on str (lexicographic by code point)
RECURSIVE StrLess(_, _)
StrLess(x, y) ==
    IF y = <<>> THEN FALSE
    ELSE IF x = <<>> THEN TRUE
    ELSE IF x[1] # y[1] THEN Ord(x[1]) < Ord(y[1])
    ELSE StrLess(Tail(x), Tail(y))

\* Python None
None == [none |-> TRUE]

(***************************************************************************)
(* difflib, as used by smart_match_category.  SequenceMatcher is built     *)
(* with no junk function and the inputs are far shorter than the 200       *)
(* elements at which the popularity heuristic starts, so matching is the   *)
(* plain longest-matching-block recursion.  Offsets are 0-based and        *)
(* half-open, as in the library: a[i] there is a[i + 1] here.              *)
(***************************************************************************)
\* a[i:i+k] == b[j:j+k]
SameBlock(a, b, i, j, k) == SubSeq(a, i + 1, i + k) = SubSeq(b, j + 1, j + k)

\* some block of size k is common to a[alo:ahi] and b[blo:bhi]
HasBlock(a, b, alo, ahi, blo, bhi, k) ==
    \E i \in alo..(ahi - k), j \in blo..(bhi - k) : SameBlock(a, b, i, j, k)

\* SequenceMatcher.find_longest_match: the longest block, of those the one
\* starting earliest in a, and of those the one starting earliest in b
FindLongestMatch(a, b, alo, ahi, blo, bhi) ==
    The({ IF k = 0 THEN [i |-> alo, j |-> blo, k |-> 0]
          ELSE The({ The({ [i |-> i, j |-> j, k |-> k] :
                           j \in {CHOOSE y \in blo..(bhi - k) :
                                      /\ SameBlock(a, b, i, y, k)
                                      /\ \A w \in blo..(y - 1) : ~SameBlock(a, b, i, w, k)} }) :
                     i \in {CHOOSE x \in alo..(ahi - k) :
                                /\ \E y \in blo..(bhi - k) : SameBlock(a, b, x, y, k)
                                /\ \A w \in alo..(x - 1) :
                                       ~\E y \in blo..(bhi - k) : SameBlock(a, b, w, y, k)} }) :
          k \in {CHOOSE n \in 0..(ahi - alo) :
                     /\ HasBlock(a, b, alo, ahi, blo, bhi, n)
                     /\ ~HasBlock(a, b, alo, ahi, blo, bhi, n + 1)} })

\* the sum of the sizes of SequenceMatcher.get_matching_blocks()
RECURSIVE Matches(_, _, _, _, _, _)
Matches(a, b, alo, ahi, blo, bhi) ==
    The({ IF m.k = 0 THEN 0
          ELSE m.k
               + (IF alo < m.i /\ blo < m.j
                  THEN Matches(a, b, alo, m.i, blo, m.j) ELSE 0)
               + (IF m.i + m.k < ahi /\ m.j + m.k < bhi
                  THEN Matches(a, b, m.i + m.k, ahi, m.j + m.k, bhi) ELSE 0) :
          m \in {FindLongestMatch(a, b, alo, ahi, blo, bhi)} })

\* SequenceMatcher(a, b).ratio() = 2.0 * matches / (len(a) + len(b)), and
\* 1.0 when both are empty, kept as the exact fraction num / den
Ratio(a, b) ==
    IF Len(a) + Len(b) = 0 THEN [num |-> 1, den |-> 1]
    ELSE [num |-> 2 * Matches(a, b, 0, Len(a), 0, Len(b)), den |-> Len(a) + Len(b)]

\* cutoff=0.6 of main.py:54, as the fraction CutoffNum / CutoffDen
CutoffNum == 6

CutoffDen == 10

\* SequenceMatcher.real_quick_ratio(): the upper bound of ratio() that the
\* lengths give
RealQuickRatio(a, b) ==
    IF Len(a) + Len(b) = 0 THEN [num |-> 1, den |-> 1]
    ELSE [num |-> 2 * (IF Len(a) < Len(b) THEN Len(a) ELSE Len(b)), den |-> Len(a) + Len(b)]

\* SequenceMatcher.quick_ratio(): the upper bound of ratio() that the
\* character counts give; a[i] counts while b still has one of it available
QuickRatio(a, b) ==
    IF Len(a) + Len(b) = 0 THEN [num |-> 1, den |-> 1]
    ELSE [num |-> 2 * Cardinality({i \in DOMAIN a :
                          Cardinality({j \in 1..(i - 1) : a[j] = a[i]})
                              < Cardinality({j \in DOMAIN b : b[j] = a[i]})}),
          den |-> Len(a) + Len(b)]

\* r >= cutoff
ReachesCutoff(r) == r.num * CutoffDen >= CutoffNum * r.den

\* (score1, x1) <= (score2, x2) on the (ratio, string) tuples of the library
TupleLeq(r1, x1, r2, x2) ==
    \/ r1.num * r2.den < r2.num * r1.den
    \/ r1.num * r2.den = r2.num * r1.den /\ (x1 = x2 \/ StrLess(x1, x2))

\* where the library's test of x stops,
\*   s.real_quick_ratio() >= cutoff and s.quick_ratio() >= cutoff and s.ratio() >= cutoff:
\* at the first of the three that is below the cutoff, else at s.ratio()
Score(x, word) ==
    IF ~ReachesCutoff(RealQuickRatio(x, word)) THEN RealQuickRatio(x, word)
    ELSE IF ~ReachesCutoff(QuickRatio(x, word)) THEN QuickRatio(x, word)
    ELSE Ratio(x, word)

\* s.set_seq2(word); for x in possibilities: s.set_seq1(x); the test of x
RECURSIVE Scores(_, _)
Scores(word, possibilities) ==
    IF possibilities = <<>> THEN <<>>
    ELSE <<Score(Head(possibilities), word)>> \o Scores(word, Tail(possibilities))

\* a plausible slip: the first possibility that reaches the cutoff, not the best
GetCloseMatchesFirst(word, possibilities) ==
    The({ IF \A i \in DOMAIN possibilities : ~ReachesCutoff(score[i]) THEN <<>>
          ELSE <<possibilities[CHOOSE i \in DOMAIN possibilities :
                     /\ ReachesCutoff(score[i])
                     /\ \A j \in 1..(i - 1) : ~ReachesCutoff(score[j])]>> :
          score \in {Scores(word, possibilities)} })

\* difflib.get_close_matches(word, possibilities, n=1, cutoff=0.6): the
\* possibilities x that pass the test, whose score is then
\* SequenceMatcher(x, word).ratio(), of which heapq.nlargest(1, ...) keeps
\* the greatest (ratio, x)
GetCloseMatches(word, possibilities) ==
    The({ IF \A i \in DOMAIN possibilities : ~ReachesCutoff(score[i]) THEN <<>>
          ELSE <<possibilities[CHOOSE i \in DOMAIN possibilities :
                     /\ ReachesCutoff(score[i])
                     /\ \A j \in DOMAIN possibilities :
                            ReachesCutoff(score[j]) =>
                                TupleLeq(score[j], possibilities[j],
                                         score[i], possibilities[i])]>> :
          score \in {Scores(word, possibilities)} })

(***************************************************************************)
(* Category functions (main.py STEP 3).                                    *)
(***************************************************************************)
\* get_categories on a list answer: the first category of each
\* strip().lower() name, in feed order, each kept as it came
GetCategories(data) ==
    LET key(i) == Lower(Strip(data[i].categoryName))
        first  == {i \in DOMAIN data : \A j \in 1..(i - 1) : key(j) # key(i)}
        F[i \in 0..Len(data)] ==
            IF i = 0 THEN <<>>
            ELSE IF i \in first THEN Append(F[i - 1], data[i]) ELSE F[i - 1]
    IN  F[Len(data)]

\* the first category whose lower-cased name is `name`, else None
FirstNamed(cats, name) ==
    LET hit == {i \in DOMAIN cats : Lower(cats[i].categoryName) = name}
    IN  IF hit = {} THEN None
        ELSE cats[CHOOSE i \in hit : \A j \in hit : i <= j]

\* [c.lower() for c in category_names]
RECURSIVE LowerNames(_)
LowerNames(cats) ==
    IF cats = <<>> THEN <<>>
    ELSE <<Lower(Head(cats).categoryName)>> \o LowerNames(Tail(cats))

\* smart_match_category
SmartMatchCategory(user_input, cats) ==
    The({ The({ IF exact # None THEN exact
                ELSE The({ IF closest # <<>> THEN FirstNamed(cats, closest[1])
                           ELSE None :
                           closest \in {GetCloseMatches(ui, LowerNames(cats))} }) :
                exact \in {FirstNamed(cats, ui)} }) :
          ui \in {Lower(Strip(user_input))} })

(***************************************************************************)
(* The strings of the program text.                                        *)
(***************************************************************************)
\* "add " (main.py:121, 283)
AddPrefix == <<"a","d","d"," ">>

\* ["show bill", "bill"] (main.py:104)
ShowBillWords == {<<"s","h","o","w"," ","b","i","l","l">>, <<"b","i","l","l">>}

\* "03" (main.py:230)
PhonePrefix == <<"0","3">>

\* [10, 11] (main.py:230)
PhoneLengths == {10, 11}

(***************************************************************************)
(* STEP 5: handle_cart_commands.  The cart is the dict                     *)
(* st.session_state["cart"], kept as the sequence of its entries in        *)
(* insertion order: [name, price, quantity].  Every operator returns the   *)
(* session state it leaves and the messages it renders.                    *)
(***************************************************************************)
\* dict.get(key, default) on an item
Get(it, key, default) == IF key \in DOMAIN it THEN it[key] ELSE default

\* name in cart
InCart(cart, name) == \E i \in DOMAIN cart : cart[i].name = name

\* the bill loop of lines 108-116: one line per entry, in dict order, and
\* the running total
BillOf(cart) ==
    LET F[i \in 0..Len(cart)] ==
            IF i = 0 THEN [lines |-> <<>>, total |-> 0]
            ELSE LET price    == cart[i].price
                     qty      == cart[i].quantity
                     subtotal == price * qty
                 IN  [lines |-> Append(F[i - 1].lines,
                                       [name |-> cart[i].name, qty |-> qty,
                                        price |-> price, subtotal |-> subtotal]),
                      total |-> F[i - 1].total + subtotal]
    IN  F[Len(cart)]

\* a plausible slip: the subtotal is added before it is computed for the
\* line, so the total misses the last line
ShowBillStaleTotal(cart) ==
    IF cart = <<>> THEN [kind |-> "cart_empty"]
    ELSE [kind |-> "bill", lines |-> BillOf(cart).lines,
          total |-> BillOf(SubSeq(cart, 1, Len(cart) - 1)).total]

\* "show bill" / "bill" (lines 104-118)
ShowBill(cart) ==
    IF cart = <<>> THEN [kind |-> "cart_empty"]
    ELSE [kind |-> "bill", lines |-> BillOf(cart).lines, total |-> BillOf(cart).total]

\* the st.info of lines 156-160
RunningBill(cart) ==
    IF cart = <<>> THEN <<>>
    ELSE <<[kind |-> "running_bill", lines |-> BillOf(cart).lines,
            total |-> BillOf(cart).total]>>

\* quantity detection (lines 126-131)
ParseAdd(parts) ==
    IF IsDigit(parts[2])
    THEN [qty |-> ParseInt(parts[2]), item_name |-> Join(SubSeq(parts, 3, Len(parts)))]
    ELSE [qty |-> 1, item_name |-> Join(SubSeq(parts, 2, Len(parts)))]

\* find item in current category (lines 134-138)
MatchedItem(items, item_name) ==
    LET hit == {i \in DOMAIN items : Lower(items[i].itemName) = Lower(item_name)}
    IN  IF hit = {} THEN None
        ELSE items[CHOOSE i \in hit : \A j \in hit : i <= j]

\* add to cart (lines 144-150)
AddToCart(cart, matched_item, qty) ==
    IF InCart(cart, matched_item.itemName)
    THEN [i \in DOMAIN cart |->
              IF cart[i].name = matched_item.itemName
              THEN [cart[i] EXCEPT !.quantity = @ + qty]
              ELSE cart[i]]
    ELSE Append(cart, [name |-> matched_item.itemName,
                       price |-> Get(matched_item, "price", 0),
                       quantity |-> qty])

\* the "add ..." branch (lines 121-161)
AddItem(ss, msg) ==
    The({ IF Len(parts) >= 2
          THEN The({ The({ IF matched_item = None
                           THEN [ss  |-> ss,
                                 out |-> <<[kind |-> "not_found",
                                            item_name |-> req.item_name]>>]
                           ELSE The({ [ss  |-> [ss EXCEPT !.cart = cart],
                                       out |-> <<[kind |-> "added", qty |-> req.qty,
                                                  name |-> matched_item.itemName]>>
                                               \o RunningBill(cart)] :
                                      cart \in {AddToCart(ss.cart, matched_item, req.qty)} }) :
                           matched_item \in {MatchedItem(ss.items, req.item_name)} }) :
                     req \in {ParseAdd(parts)} })
          ELSE [ss |-> ss, out |-> RunningBill(ss.cart)] :
          parts \in {Split(msg)} })

\* the suggestion loop (lines 164-169)
Suggest(ss, msg_lower) ==
    LET hit == {i \in DOMAIN ss.items : Contains(msg_lower, Lower(ss.items[i].itemName))}
    IN  IF hit = {} THEN <<>>
        ELSE <<[kind |-> "suggest",
                name |-> ss.items[CHOOSE i \in hit : \A j \in hit : i <= j].itemName]>>

\* handle_cart_commands(msg)
HandleCartCommands(ss, msg) ==
    The({ IF msg_lower \in ShowBillWords
          THEN [ss |-> ss, out |-> <<ShowBill(ss.cart)>>]
          ELSE IF StartsWith(msg_lower, AddPrefix)
          THEN AddItem(ss, msg)
          ELSE [ss |-> ss, out |-> Suggest(ss, msg_lower)] :
          msg_lower \in {Lower(msg)} })

(***************************************************************************)
(* The Catalog service, an external collaborator: what it may answer.      *)
(***************************************************************************)
Fruits == <<"F","r","u","i","t","s">>

Clothes == <<"C","l","o","t","h","e","s">>

Apple == <<"A","p","p","l","e">>

Mango == <<"M","a","n","g","o">>

Shirt == <<"S","h","i","r","t">>

\* a list answer of CAT_URL: a disabled category and a repeated name
CategoryData ==
    << [categoryName |-> Fruits, isEnable |-> TRUE],
       [categoryName |-> Clothes, isEnable |-> FALSE],
       [categoryName |-> Lower(Fruits) \o <<" ">>, isEnable |-> TRUE] >>

\* the list answers of ITEM_URL/<categoryName>; Mango comes without a price
ItemsData(categoryName) ==
    IF categoryName = Fruits
    THEN << [itemName |-> Apple, price |-> 120], [itemName |-> Mango] >>
    ELSE IF categoryName = Clothes
    THEN << [itemName |-> Shirt, price |-> 500] >>
    ELSE <<>>

\* how one items request ends: a non-empty list, an empty list or a
\* non-list, an exception
FetchOutcomes == {"list", "empty", "error"}

\* what get_categories() may return in a run: the de-duplicated list, or []
\* after a non-list answer or an exception
CategoryAnswers == {GetCategories(CategoryData), <<>>}

(***************************************************************************)
(* The chat inputs tried on every run.                                     *)
(***************************************************************************)
\* the checkout request of a user; no branch of the program reads it
Checkout == <<"c","h","e","c","k","o","u","t">>

Prompts ==
    {
      <<"A","l","i">>,   \* a name
      <<" ">>,   \* whitespace only
      <<"0","3","0","0","-","1","2","3","4","5","6">>,   \* a phone number of 10 digits, typed with a dash
      <<"1","3","0","0","1","2","3","4","5","6">>,   \* 10 digits that do not start with 03
      <<"F","r","u","i","t","s">>,   \* a category, exactly
      <<"c","l","o","t","h","3","s">>,   \* a category, nearly
      <<"a","d","d"," ","1"," ","A","p","p","l","e">>,   \* quantity 1
      <<"a","d","d"," ","0"," ","m","a","n","g","o">>,   \* quantity 0, an item without a price
      <<"a","d","d"," ","-","1"," ","A","p","p","l","e">>,   \* no quantity: 1 x '-1 Apple'
      <<"B","i","l","l">>,   \* view the cart
      Checkout,   \* a checkout request
      <<"a","d","d"," ","1"," ","f","r","u","i","t","s">>   \* an add command that is nearly a category
    }

(***************************************************************************)
(* STEP 6d: run_streamlit on one chat input.                               *)
(***************************************************************************)
\* dict[key] = value on user_info
Put(d, key, value) == [k \in DOMAIN d \cup {key} |-> IF k = key THEN value ELSE d[k]]

\* the name test of line 221
ValidName(msg) == IsAlpha(RemoveSpaces(msg))

\* a plausible slip: the length test alone, the "03" prefix forgotten
ValidPhoneNoPrefix(digits) == Len(digits) \in PhoneLengths

\* the phone test of line 230
ValidPhone(digits) == Len(digits) \in PhoneLengths /\ StartsWith(digits, PhonePrefix)

\* a plausible slip: a valid phone number completes the login, the address
\* step is passed over
LoginFlowSkipsAddress(ss, msg) ==
    IF ss.login_step = 0
    THEN IF ValidName(msg)
         THEN [ss  |-> [ss EXCEPT !.user_info = Put(@, "name", msg), !.login_step = 1],
               out |-> <<[kind |-> "ask_phone"]>>]
         ELSE [ss |-> ss, out |-> <<[kind |-> "name_rejected"]>>]
    ELSE IF ss.login_step = 1
    THEN The({ IF ValidPhone(digits)
               THEN [ss  |-> [ss EXCEPT !.user_info = Put(@, "phone", digits),
                                        !.login_step = 3],
                     out |-> <<[kind |-> "ask_address"]>>]
               ELSE [ss |-> ss, out |-> <<[kind |-> "phone_rejected"]>>] :
               digits \in {FilterDigits(msg)} })
    ELSE IF ss.login_step = 2
    THEN IF msg # <<>>
         THEN [ss  |-> [ss EXCEPT !.user_info = Put(@, "address", msg), !.login_step = 3],
               out |-> <<[kind |-> "logged_in"]>>]
         ELSE [ss |-> ss, out |-> <<[kind |-> "address_rejected"]>>]
    ELSE [ss |-> ss, out |-> <<>>]

\* the interactive login flow (lines 219-246)
LoginFlow(ss, msg) ==
    IF ss.login_step = 0
    THEN IF ValidName(msg)
         THEN [ss  |-> [ss EXCEPT !.user_info = Put(@, "name", msg), !.login_step = 1],
               out |-> <<[kind |-> "ask_phone"]>>]
         ELSE [ss |-> ss, out |-> <<[kind |-> "name_rejected"]>>]
    ELSE IF ss.login_step = 1
    THEN The({ IF ValidPhone(digits)
               THEN [ss  |-> [ss EXCEPT !.user_info = Put(@, "phone", digits),
                                        !.login_step = 2],
                     out |-> <<[kind |-> "ask_address"]>>]
               ELSE [ss |-> ss, out |-> <<[kind |-> "phone_rejected"]>>] :
               digits \in {FilterDigits(msg)} })
    ELSE IF ss.login_step = 2
    THEN IF msg # <<>>
         THEN [ss  |-> [ss EXCEPT !.user_info = Put(@, "address", msg), !.login_step = 3],
               out |-> <<[kind |-> "logged_in"]>>]
         ELSE [ss |-> ss, out |-> <<[kind |-> "address_rejected"]>>]
    ELSE [ss |-> ss, out |-> <<>>]

\* a plausible slip: the item list of the previous category is kept until
\* the new one has arrived
SelectCategoryKeepItems(ss, selected, fetch) ==
    LET ss1       == [ss EXCEPT !.selected_cat = selected]
        items_res == IF fetch = "list" THEN ItemsData(selected.categoryName) ELSE <<>>
    IN  IF fetch = "error"
        THEN [ss |-> ss1, out |-> <<[kind |-> "fetch_error"]>>]
        ELSE IF items_res # <<>>
        THEN [ss  |-> [ss1 EXCEPT !.items = items_res],
              out |-> <<[kind |-> "selected", category |-> selected.categoryName]>>]
        ELSE [ss |-> ss1, out |-> <<[kind |-> "no_items", category |-> selected.categoryName]>>]

\* a category was matched (lines 251-273)
SelectCategory(ss, selected, fetch) ==
    LET ss1       == [ss EXCEPT !.selected_cat = selected, !.items = <<>>]
        items_res == IF fetch = "list" THEN ItemsData(selected.categoryName) ELSE <<>>
    IN  IF fetch = "error"
        THEN [ss |-> ss1, out |-> <<[kind |-> "fetch_error"]>>]
        ELSE IF items_res # <<>>
        THEN [ss  |-> [ss1 EXCEPT !.items = items_res],
              out |-> <<[kind |-> "selected", category |-> selected.categoryName]>>]
        ELSE [ss |-> ss1, out |-> <<[kind |-> "no_items", category |-> selected.categoryName]>>]

\* no category was matched (lines 275-286): handle_cart_commands is called
\* twice, then the AI answer unless msg starts with "add "
CartOrChat(ss, msg) ==
    The({ The({ [ss  |-> r2.ss,
                 out |-> r1.out \o r2.out \o
                         (IF ~StartsWith(msg, AddPrefix)
                          THEN <<[kind |-> "ai_response"]>> ELSE <<>>)] :
                r2 \in {HandleCartCommands(r1.ss, msg)} }) :
          r1 \in {HandleCartCommands(ss, msg)} })

\* a plausible slip: the cart commands are not under the else of the
\* category test, so a message that selects a category goes through them too
ShoppingFlowFallsThrough(ss, msg, cats, fetch) ==
    The({ The({ [ss |-> r.ss, selected_category |-> selected, out |-> r.out] :
                r \in {IF selected # None
                       THEN The({ The({ [ss |-> r2.ss, out |-> r1.out \o r2.out] :
                                        r2 \in {CartOrChat(r1.ss, msg)} }) :
                                  r1 \in {SelectCategory(ss, selected, fetch)} })
                       ELSE CartOrChat(ss, msg)} }) :
          selected \in {SmartMatchCategory(Lower(msg), cats)} })

\* the normal shopping/chat flow (lines 249-286)
ShoppingFlow(ss, msg, cats, fetch) ==
    The({ The({ [ss |-> r.ss, selected_category |-> selected, out |-> r.out] :
                r \in {IF selected # None THEN SelectCategory(ss, selected, fetch)
                       ELSE CartOrChat(ss, msg)} }) :
          selected \in {SmartMatchCategory(Lower(msg), cats)} })

\* a plausible slip: the shopping flow is not under the else of the login
\* test, so every message also goes through it
RunStreamlitNoElse(ss, p, cats, fetch) ==
    The({ IF ss.login_step < 3
          THEN The({ The({ [ss |-> r2.ss, selected_category |-> r2.selected_category,
                            out |-> r1.out \o r2.out] :
                           r2 \in {ShoppingFlow(r1.ss, msg, cats, fetch)} }) :
                     r1 \in {LoginFlow(ss, msg)} })
          ELSE ShoppingFlow(ss, msg, cats, fetch) :
          msg \in {Strip(p)} })

\* run_streamlit with the chat input p (lines 213-286)
RunStreamlit(ss, p, cats, fetch) ==
    The({ IF ss.login_step < 3
          THEN The({ [ss |-> r.ss, selected_category |-> None, out |-> r.out] :
                     r \in {LoginFlow(ss, msg)} })
          ELSE ShoppingFlow(ss, msg, cats, fetch) :
          msg \in {Strip(p)} })

(***************************************************************************)
(* The state machine: one action per branch of the run.                    *)
(***************************************************************************)
\* dict {}
EmptyDict == [k \in {} |-> <<>>]

\* STEP 6a: the session state of a new session (lines 181-186)
NewSession ==
    [user_info |-> EmptyDict, selected_cat |-> None, items |-> <<>>,
     cart |-> <<>>, login_step |-> 0]

\* smart_match_category is not called on its own
NoCall == match_input = <<>> /\ categories = <<>> /\ matched = <<>>

Init ==
    /\ session_state = NewSession
    /\ selected_category = None
    /\ out = <<>>
    /\ NoCall

\* one script run on the chat input p, with the Catalog answering cats and fetch
ChatInput(p, cats, fetch) ==
    \E r \in {RunStreamlit(session_state, p, cats, fetch)} :
        /\ \A i \in DOMAIN r.ss.cart : r.ss.cart[i].quantity <= MaxQty
        /\ session_state' = r.ss
        /\ selected_category' = r.selected_category
        /\ out' = r.out
        /\ UNCHANGED <<match_input, categories, matched>>

\* how the items request of the run may end; it is made only in the
\* shopping flow and only once a category is matched (lines 251-257)
Fetches(p, cats) ==
    IF session_state.login_step = 3 /\ SmartMatchCategory(Lower(Strip(p)), cats) # None
    THEN FetchOutcomes
    ELSE {"none"}

\* login_step 0: the message is taken as the name
EnterName ==
    /\ session_state.login_step = 0
    /\ \E p \in Prompts, cats \in CategoryAnswers, fetch \in FetchOutcomes :
           ChatInput(p, cats, fetch)

\* login_step 1: the message is taken as the phone number
EnterPhone ==
    /\ session_state.login_step = 1
    /\ \E p \in Prompts, cats \in CategoryAnswers, fetch \in FetchOutcomes :
           ChatInput(p, cats, fetch)

\* login_step 2: the message is taken as the address
EnterAddress ==
    /\ session_state.login_step = 2
    /\ \E p \in Prompts, cats \in CategoryAnswers, fetch \in FetchOutcomes :
           ChatInput(p, cats, fetch)

\* login_step 3: the message is a category name, a cart command or chat
Shop ==
    /\ session_state.login_step = 3
    /\ \E p \in Prompts, cats \in CategoryAnswers :
           \E fetch \in Fetches(p, cats) : ChatInput(p, cats, fetch)

Next == EnterName \/ EnterPhone \/ EnterAddress \/ Shop

Spec == Init /\ [][Next]_vars

(***************************************************************************)
(* smart_match_category on its own: every input and category list within  *)
(* the bounds.                                                             *)
(***************************************************************************)
\* the sequences over S of length at most n
RECURSIVE SeqsUpTo(_, _)
SeqsUpTo(S, n) ==
    IF n = 0 THEN {<<>>}
    ELSE LET shorter == SeqsUpTo(S, n - 1)
         IN  shorter \cup {Append(q, x) : q \in shorter, x \in S}

MatchAlphabet == {"a", "b", "A", " "}

MatchInputs == SeqsUpTo(MatchAlphabet, MaxLen)

MatchNames ==
    { <<"a">>, <<"A","b">>, <<"a","b","b">>, <<"b","a">>, <<"a"," "," ">> }

MatchCategories ==
    { GetCategories([i \in DOMAIN names |-> [categoryName |-> names[i], isEnable |-> TRUE]]) :
          names \in SeqsUpTo(MatchNames, MaxCats) }

MatchInit ==
    /\ session_state = NewSession
    /\ selected_category = None
    /\ out = <<>>
    /\ match_input \in MatchInputs
    /\ categories \in MatchCategories
    /\ matched = <<>>

\* matched = <<smart_match_category(match_input, categories)>>
Match ==
    /\ matched = <<>>
    /\ matched' = <<SmartMatchCategory(match_input, categories)>>
    /\ UNCHANGED <<session_state, selected_category, out, match_input, categories>>

MatchNext == Match

MatchSpec == MatchInit /\ [][MatchNext]_vars

(***************************************************************************)
(* Properties of smart_match_category, checked under MatchSpec.            *)
(***************************************************************************)
\* the normalised input of the call
MatchWord == Lower(Strip(match_input))

\* the similarity ratio of the i-th category to the input
ScoreOf(i) == Ratio(Lower(categories[i].categoryName), MatchWord)

\* the categories that reach the threshold
Reaching == {i \in DOMAIN categories : ReachesCutoff(ScoreOf(i))}

\* no category's lower-cased name is the input: the exact-match loop of
\* lines 50-52 returns nothing
NoExactMatch == \A i \in DOMAIN categories : Lower(categories[i].categoryName) # MatchWord

\* r1 <= r2 on ratios
RatioLeq(r1, r2) == r1.num * r2.den <= r2.num * r1.den

\* C7: exact match first, fuzzy match only at or above the threshold.  If a
\* category's lower-cased, trimmed name equals the lower-cased, trimmed
\* input, that category is returned; otherwise a category is returned only
\* if its ratio to the input is >= 0.6, and None when no category reaches 0.6.
C7_ExactThenThreshold ==
    matched # <<>> =>
        LET same == {i \in DOMAIN categories :
                         Lower(Strip(categories[i].categoryName)) = MatchWord}
        IN  IF same # {}
            THEN \E i \in same : matched[1] = categories[i]
            ELSE /\ matched[1] # None =>
                        \E i \in Reaching : matched[1] = categories[i]
                 /\ Reaching = {} => matched[1] = None

\* C8, as claimed: with no exact match and several categories reaching the
\* threshold, the first of them in iteration order is returned.
C8_FirstReaching ==
    (matched # <<>> /\ NoExactMatch /\ Cardinality(Reaching) >= 2) =>
        matched[1] = categories[CHOOSE i \in Reaching : \A j \in Reaching : i <= j]

\* C8, amended: with no exact match and several categories reaching the
\* threshold, a category of the highest ratio is returned, and among
\* categories of that ratio the one whose lower-cased name is greatest.
C8_BestScoring ==
    (matched # <<>> /\ NoExactMatch /\ Cardinality(Reaching) >= 2) =>
        \E i \in Reaching :
            /\ matched[1] = categories[i]
            /\ \A j \in DOMAIN categories :
                   /\ RatioLeq(ScoreOf(j), ScoreOf(i))
                   /\ RatioLeq(ScoreOf(i), ScoreOf(j)) =>
                          ~StrLess(Lower(categories[i].categoryName),
                                   Lower(categories[j].categoryName))

\* C8 witness: the call returned a category that scores higher than the
\* first category reaching the threshold
C8_BestIsNotFirst ==
    /\ matched # <<>>
    /\ NoExactMatch
    /\ Cardinality(Reaching) >= 2
    /\ LET first == CHOOSE i \in Reaching : \A j \in Reaching : i <= j
       IN  /\ matched[1] # categories[first]
           /\ \E i \in Reaching :
                  /\ matched[1] = categories[i]
                  /\ ~RatioLeq(ScoreOf(i), ScoreOf(first))

(***************************************************************************)
(* Properties of the chat session, checked under Spec.                     *)
(***************************************************************************)
\* the lines of a cart that carry the name
LinesOf(cart, name) == {i \in DOMAIN cart : cart[i].name = name}

\* the quantity a cart holds of the name
RECURSIVE QuantityOf(_, _)
QuantityOf(cart, name) ==
    IF cart = <<>> THEN 0
    ELSE (IF Head(cart).name = name THEN Head(cart).quantity ELSE 0)
         + QuantityOf(Tail(cart), name)

\* the sum of the subtotals of the lines of a rendered bill
RECURSIVE SumOfSubtotals(_)
SumOfSubtotals(lines) ==
    IF lines = <<>> THEN 0 ELSE Head(lines).subtotal + SumOfSubtotals(Tail(lines))

\* the first message the run rendered is of one of the kinds
Rendered(o, kinds) == o # <<>> /\ o[1].kind \in kinds

\* C1: an add command for q of an item of the current item list leaves
\* exactly one cart line of that name, holding q more than before; so over
\* any sequence of such commands the line holds the sum of the quantities.
C1_QuantityIsSumOfRequests ==
    [][Rendered(out', {"added"}) =>
           LET name == out'[1].name
               q    == out'[1].qty
           IN  /\ Cardinality(LinesOf(session_state'.cart, name)) = 1
               /\ QuantityOf(session_state'.cart, name)
                      = QuantityOf(session_state.cart, name) + q]_vars

\* C2: every cart line has a quantity > 0 and a unit price > 0.
C2_PositiveLines ==
    \A i \in DOMAIN session_state.cart :
        session_state.cart[i].quantity > 0 /\ session_state.cart[i].price > 0

\* C3: no message received while login_step < 3 changes the cart.
C3_CartFrozenUntilLogin ==
    [][session_state.login_step < 3 => session_state'.cart = session_state.cart]_vars

\* C3 witness: a message was handled, and turned down, in the middle of the
\* login flow
C3_MessageDuringLogin ==
    /\ session_state.login_step \in {1, 2}
    /\ Rendered(out, {"phone_rejected", "address_rejected"})

\* C4: the message that takes login_step from 2 to 3 leaves an empty cart,
\* so that viewing the cart next gives the empty-cart answer.
C4_LoginLeavesCartEmpty ==
    [][(session_state.login_step = 2 /\ session_state'.login_step = 3) =>
           /\ session_state'.cart = <<>>
           /\ ShowBill(session_state'.cart) = [kind |-> "cart_empty"]]_vars

\* C4 witness: the run that completed the login
C4_JustLoggedIn ==
    session_state.login_step = 3 /\ Rendered(out, {"logged_in"})

\* C5: while logged in, user_info holds a non-empty name, a phone that is
\* a digit string of length 10 or 11 starting with "03", and a non-empty
\* address.
C5_LoggedInSessionValid ==
    session_state.login_step = 3 =>
        LET info == session_state.user_info
        IN  /\ DOMAIN info = {"name", "phone", "address"}
            /\ info.name # <<>>
            /\ \A i \in DOMAIN info.phone : info.phone[i] \in DigitSet
            /\ Len(info.phone) \in {10, 11}
            /\ Len(info.phone) >= 2 /\ info.phone[1] = "0" /\ info.phone[2] = "3"
            /\ info.address # <<>>

\* C5 witness: logged in with the phone number that was typed with a dash
C5_LoggedInWithPhone ==
    /\ session_state.login_step = 3
    /\ session_state.user_info.phone = <<"0","3","0","0","1","2","3","4","5","6">>

\* C6: a failed operation (a rejected login input, an add command for an
\* item that is not in the item list, a category whose items request
\* failed) leaves the session state as it was.
C6_FailureChangesNothing ==
    [][Rendered(out', {"name_rejected", "phone_rejected", "address_rejected",
                       "not_found", "fetch_error"}) =>
           session_state' = session_state]_vars

\* C9: viewing the cart changes nothing; on an empty cart it gives the
\* empty-cart answer, and otherwise one line per cart line, in insertion
\* order, with subtotal = quantity * unit price, and the sum of the
\* subtotals as the total.
C9_ViewCart ==
    [][Rendered(out', {"cart_empty", "bill"}) =>
           LET cart == session_state.cart
               bill == out'[1]
           IN  /\ session_state' = session_state
               /\ IF cart = <<>> THEN bill = [kind |-> "cart_empty"]
                  ELSE /\ bill.kind = "bill"
                       /\ Len(bill.lines) = Len(cart)
                       /\ \A i \in DOMAIN cart :
                              /\ bill.lines[i].name = cart[i].name
                              /\ bill.lines[i].qty = cart[i].quantity
                              /\ bill.lines[i].price = cart[i].price
                              /\ bill.lines[i].subtotal = cart[i].quantity * cart[i].price
                       /\ bill.total = SumOfSubtotals(bill.lines)]_vars

\* C9 witness: the bill of a cart of two lines was rendered
C9_BillOfTwoLines ==
    /\ Rendered(out, {"bill"})
    /\ Len(session_state.cart) = 2
    /\ out[1].total > 0

\* C10: a run that matches a category stores it as the selected category,
\* and the item list is empty or the list fetched for the selected category.
C10_ItemsOfSelectedCategory ==
    /\ [](\/ session_state.items = <<>>
          \/ /\ session_state.selected_cat # None
             /\ session_state.items = ItemsData(session_state.selected_cat.categoryName))
    /\ [][selected_category' # None =>
              session_state'.selected_cat = selected_category']_vars

\* C10 witness: a second category was selected and its items request gave
\* nothing, after an item of the first category went into the cart
C10_SwitchedCategory ==
    /\ session_state.selected_cat # None
    /\ session_state.selected_cat.categoryName = Clothes
    /\ session_state.items = <<>>
    /\ session_state.cart # <<>>

\* C11: a checkout request made while the cart is empty fails as an invalid
\* state: the run that handles it renders that failure and nothing else (no
\* call to Billing or to any other collaborator) and leaves the session
\* state, the cart included, as it was.
C11_EmptyCheckoutRejected ==
    [][(/\ session_state.login_step = 3
        /\ session_state.cart = <<>>
        /\ \E cats \in CategoryAnswers :
               \E fetch \in Fetches(Checkout, cats) : ChatInput(Checkout, cats, fetch)) =>
           /\ session_state' = session_state
           /\ out' = <<[kind |-> "invalid_state"]>>]_vars

\* C12: login_step only moves 0 -> 1 -> 2 -> 3, one step per message and
\* never back; the step from 0 stores the name only, the step from 1 the
\* phone only, the step from 2 the address only; a message that does not
\* move the counter stores nothing; and at 3 no message changes the counter
\* or user_info.
C12_LoginStepsInOrder ==
    [][LET step  == session_state.login_step
           info  == session_state.user_info
           step2 == session_state'.login_step
           info2 == session_state'.user_info
           field == [s \in 0..2 |-> <<"name", "phone", "address">>[s + 1]]
       IN  /\ step \in 0..3
           /\ step2 \in {step, step + 1} \cap 0..3
           /\ step2 = step => info2 = info
           /\ step2 = step + 1 =>
                  /\ DOMAIN info2 = DOMAIN info \cup {field[step]}
                  /\ \A k \in DOMAIN info \ {field[step]} : info2[k] = info[k]]_vars

\* C12 witness: logged in step by step, and a message handled after that
\* put an item into the cart
C12_ShoppedAfterLogin ==
    /\ session_state.login_step = 3
    /\ DOMAIN session_state.user_info = {"name", "phone", "address"}
    /\ Rendered(out, {"added"})

\* C13: in the shopping phase a message that matches a category is handled
\* as a category selection only: the run renders nothing but the answer to
\* the selection and leaves the cart, user_info and login_step as they
\* were; a message that matches none, handled as a cart command or chat,
\* leaves the selected category and the item list as they were.
C13_SelectionOrCartCommand ==
    [][session_state.login_step = 3 =>
           IF selected_category' # None
           THEN /\ session_state'.cart = session_state.cart
                /\ session_state'.user_info = session_state.user_info
                /\ session_state'.login_step = session_state.login_step
                /\ Len(out') = 1
                /\ out'[1].kind \in {"selected", "no_items", "fetch_error"}
           ELSE /\ session_state'.selected_cat = session_state.selected_cat
                /\ session_state'.items = session_state.items]_vars

\* C13 witness: a category was selected, and its items listed, by a run
\* that found lines in the cart
C13_SelectedWithCart ==
    /\ session_state.login_step = 3
    /\ selected_category # None
    /\ Rendered(out, {"selected"})
    /\ session_state.cart # <<>>

=============================================================================
